---- MODULE Spec2Model ----
(***************************************************************************)
(* A model of fallAllD_classification.py: the channel-slicing loaders, the *)
(* training / validation / early-stopping / test orchestration of          *)
(* ClassificationModel2.run, and the aggregation loop of the entry point.  *)
(*                                                                         *)
(* Floating point values are kept exact: a quotient a / b is the fraction  *)
(* [num |-> a, den |-> b]; a fraction with den = 0 is what numpy's true    *)
(* division yields for a zero divisor (nan for 0/0), the counts being      *)
(* numpy integers taken from sklearn's confusion matrix.                   *)
(***************************************************************************)
EXTENDS Integers, Sequences, FiniteSets, TLC

VARIABLES
    \* ---- ClassificationModel2: constructor arguments and the dataset ----
    load_method,        \* self.load_method
    num_epochs,         \* self.num_epochs
    batch_size_valid,   \* self.batch_size_valid
    batch_size_test,    \* self.batch_size_test
    train_batches,      \* len(train_loader)
    valid_y,            \* labels of the validation split on disk
    test_y,             \* labels of the test split on disk
    patience,           \* EarlyStopping's patience
    \* ---- ClassificationModel2.run: locals and the world it touches ----
    pc,                 \* position in run()
    bound,              \* whether train, valid, test are bound names
    epoch,              \* loop variable of the training loop (-1: not yet bound)
    batch,              \* minibatches consumed from the loader being iterated
    model,              \* parameters, as the number of optimizer steps applied
    train_loss,
    valid_loss,
    valid_outputs,
    valid_labels,
    metrics,            \* the per-epoch metrics dictionary
    es,                 \* the EarlyStopping object
    fs,                 \* directories that exist
    made,               \* history: directories os.makedirs created
    csv,                \* content of the metrics CSV (NoFile: not written)
    predictions,
    actuals,
    tested_model,       \* parameters the test forward passes ran with
    result,             \* value returned by run() (NoResult: none yet)
    epochs_run,         \* history: training epochs started
    es_calls,           \* history: calls of early_stopping
    test_runs,          \* history: test evaluations started
    \* ---- channel slicing ----
    arr,                \* raw array handed to a preprocess function
    slice_method,       \* keyword whose loader was applied last
    sliced,             \* what the preprocess function returned
    \* ---- entry point ----
    load_methods,       \* the list iterated by the aggregation loop
    main_i,             \* index of the next configuration
    main_pc,
    input_size,         \* the entry point's local input_size (0: unbound)
    test_metrics,       \* the aggregate test-metrics dictionary
    returns             \* history: what each run() returned

argVars == <<load_method, num_epochs, batch_size_valid, batch_size_test,
             train_batches, valid_y, test_y, patience>>
runVars == <<load_method, num_epochs, batch_size_valid, batch_size_test,
             train_batches, valid_y, test_y, patience, pc, bound, epoch, batch,
             model, train_loss, valid_loss, valid_outputs, valid_labels, metrics,
             es, fs, made, csv, predictions, actuals, tested_model, result,
             epochs_run, es_calls, test_runs>>
sliceVars == <<arr, slice_method, sliced>>
mainVars == <<load_methods, main_i, main_pc, input_size, test_metrics, returns>>
vars == <<runVars, sliceVars, mainVars>>

----------------------------------------------------------------------------
\* Bounds of the model.
MaxEpochs == 3
MaxPatience == 2
MaxLoss == 1
NumTrainBatches == 2
MaxSamples == 2
MaxArrSamples == 3
MaxWindow == 4
MaxConfigs == 2

\* Channels of a raw FallAllD window: one leading channel and three 9-channel
\* sensor blocks.
RawChannels == 28

Labels == {0, 1}
Min(a, b) == IF a < b THEN a ELSE b
Max(a, b) == IF a > b THEN a ELSE b

\* The placement keywords run() has a branch for.
Keywords == {"wrist", "waist", "waist_wrist", "neck", "waist_neck",
             "neck_waist_wrist", "waist_eul_acc", "waist_acc"}
\* Keywords handed to the constructor in the model: recognized ones and two
\* that no branch compares equal to.
RunInputs == {"waist", "waist_eul_acc", "ankle", "Waist"}

----------------------------------------------------------------------------
\* Exact arithmetic.

\* a / b on numpy scalars: no exception for b = 0, the quotient is nan or inf.
Div(a, b) == [num |-> a, den |-> b]
Defined(q) == q.den # 0
InUnitInterval(q) == Defined(q) /\ 0 <= q.num /\ q.num <= q.den
\* q < r, for fractions with positive denominators
Less(q, r) == q.num * r.den < r.num * q.den

----------------------------------------------------------------------------
\* Data loaders.

\* len(DataLoader(dataset, batch_size)) for a dataset of n samples
NumBatches(n, bs) == (n + bs - 1) \div bs
\* the labels of minibatch k (from 0) of an unshuffled loader
BatchOf(y, k, bs) == SubSeq(y, k * bs + 1, Min((k + 1) * bs, Len(y)))
\* the thresholded outputs round(sigmoid(pred)) a batch of n samples can get
BinaryOutputs(n) == [1..n -> Labels]

\* variant: the list is assigned, not extended
Extend_Overwrite(list, items) == items
\* list.extend(items)
Extend(list, items) == list \o items

----------------------------------------------------------------------------
\* Metrics.

\* sklearn's confusion_matrix over the labels [0, 1], as line 284 passes them:
\* cm[i][j] counts the samples of true class i predicted as class j.  (Line 219
\* passes no labels; what cal_tp_tn_fp_fn makes of the 1x1 matrix sklearn then
\* builds when a single class occurs is decided outside this file.)
Confusion(y_true, y_pred) ==
    [i \in Labels |-> [j \in Labels |->
        Cardinality({k \in 1..Min(Len(y_true), Len(y_pred)) :
                        y_true[k] = i /\ y_pred[k] = j})]]

\* kfall_classification.cal_tp_tn_fp_fn, returned in the order FP, FN, TP, TN
cal_tp_tn_fp_fn(cm) ==
    [FP |-> cm[0][1], FN |-> cm[1][0], TP |-> cm[1][1], TN |-> cm[0][0]]

\* sklearn's accuracy_score
accuracy_score(y_true, y_pred) ==
    LET cm == Confusion(y_true, y_pred)
    IN  Div(cm[0][0] + cm[1][1], Len(y_true))

\* sklearn's f1_score(average='weighted'): the per-class F1 (0 where its
\* denominator is 0) weighted by the class's support.
f1_score(y_true, y_pred) ==
    LET cm == Confusion(y_true, y_pred)
        d0 == 2 * cm[0][0] + cm[0][1] + cm[1][0]
        d1 == 2 * cm[1][1] + cm[0][1] + cm[1][0]
        e0 == Max(d0, 1)
        e1 == Max(d1, 1)
        s0 == cm[0][0] + cm[0][1]
        s1 == cm[1][0] + cm[1][1]
    IN  Div(s0 * 2 * cm[0][0] * e1 + s1 * 2 * cm[1][1] * e0, (s0 + s1) * e0 * e1)

\* TP / (TP + FN)
TruePositiveRate(c) == Div(c.TP, c.TP + c.FN)
\* FP / (FP + TN)
FalsePositiveRate(c) == Div(c.FP, c.FP + c.TN)

Columns == {"epoch", "train_loss", "valid_loss", "valid_accuracy", "valid_f1",
            "valid_TPR", "valid_FPR", "valid_FP", "valid_FN", "valid_TP",
            "valid_TN"}
EmptyMetrics == [c \in Columns |-> <<>>]

\* The values run() computes at the end of a validation pass.
EpochRow(e, t_loss, n_train, v_loss, y_true, y_pred) ==
    LET c == cal_tp_tn_fp_fn(Confusion(y_true, y_pred))
    IN  [epoch |-> e + 1,
         train_loss |-> Div(t_loss, n_train),
         valid_loss |-> v_loss,
         valid_accuracy |-> accuracy_score(y_true, y_pred),
         valid_f1 |-> f1_score(y_true, y_pred),
         valid_TPR |-> TruePositiveRate(c),
         valid_FPR |-> FalsePositiveRate(c),
         valid_FP |-> c.FP, valid_FN |-> c.FN, valid_TP |-> c.TP,
         valid_TN |-> c.TN]

\* variant: the append to valid_TN is missing
AppendRow_MissingColumn(m, row) ==
    [c \in Columns |-> IF c = "valid_TN" THEN m[c] ELSE Append(m[c], row[c])]
\* metrics[c].append(...) for each of the eleven columns
AppendRow(m, row) == [c \in Columns |-> Append(m[c], row[c])]

\* variant: to_csv is not called
ToCsv_Skipped(m) == <<>>
\* pd.DataFrame(metrics).to_csv(csv_file_name): the file holds the table
ToCsv(m) == <<m>>

\* What run() returns for the test split.
TestResult(y_true, y_pred) ==
    LET c == cal_tp_tn_fp_fn(Confusion(y_true, y_pred))
    IN  [window_size |-> "4",
         accuracy |-> accuracy_score(y_true, y_pred),
         F1 |-> f1_score(y_true, y_pred),
         TPR |-> TruePositiveRate(c),
         FPR |-> FalsePositiveRate(c),
         FP |-> c.FP, FN |-> c.FN, TP |-> c.TP, TN |-> c.TN]

----------------------------------------------------------------------------
\* Early stopping (utils.data_load_and_EarlyStop.EarlyStopping).

NewEarlyStopping ==
    [best |-> <<>>, counter |-> 0, early_stop |-> FALSE, checkpoint |-> <<>>,
     best_epoch |-> 0]

\* early_stopping(epoch, val_loss, model): an improving loss is checkpointed and
\* resets the counter; patience non-improving calls in a row raise early_stop.
EarlyStoppingCall(s, e, val_loss, params, pat) ==
    IF s.best = <<>> \/ Less(val_loss, s.best[1])
    THEN [s EXCEPT !.best = <<val_loss>>, !.counter = 0,
                   !.checkpoint = <<params>>, !.best_epoch = e + 1]
    ELSE [s EXCEPT !.counter = s.counter + 1,
                   !.early_stop = (s.counter + 1 >= pat)]

----------------------------------------------------------------------------
\* ClassificationModel2.run

\* variant: a final else branch binds the splits for any keyword
Assigns_Default(k) == TRUE
\* the if / elif chain binds train, valid, test only for these keywords
Assigns(k) == k \in Keywords

\* t_loss.item() of a training minibatch: it is summed and recorded, and no
\* branch of run() reads it, so one value stands for all.
TrainLosses == {1}

\* variant: the loop over train_loader is left after its first minibatch
TrainLoopDone_FirstBatch == batch >= 1
\* the loop over train_loader is exhausted
TrainLoopDone == batch = train_batches

\* variant: the stop flag is not looked at
LoopContinues_NoBreak == TRUE
\* "if early_stopping.early_stop: break" is not taken
LoopContinues == ~es.early_stop

ValidBatches == NumBatches(Len(valid_y), batch_size_valid)
TestBatches == NumBatches(Len(test_y), batch_size_test)

\* The state outside a call of run(), the test split on disk being ty.
RunIdle(ty) ==
    /\ load_method = "" /\ num_epochs = 0
    /\ batch_size_valid = 1 /\ batch_size_test = 1 /\ train_batches = 1
    /\ valid_y = <<>> /\ test_y = ty /\ patience = 1
    /\ pc = "idle" /\ bound = FALSE /\ epoch = -1 /\ batch = 0 /\ model = 0
    /\ train_loss = 0 /\ valid_loss = Div(0, 1)
    /\ valid_outputs = <<>> /\ valid_labels = <<>>
    /\ metrics = EmptyMetrics /\ es = NewEarlyStopping
    /\ fs = {} /\ made = {} /\ csv = <<>> /\ predictions = <<>> /\ actuals = <<>>
    /\ tested_model = <<>> /\ result = <<>>
    /\ epochs_run = 0 /\ es_calls = 0 /\ test_runs = 0

\* A constructed ClassificationModel2 about to run: arguments from the given
\* sets, splits of the given sizes with any labels, directories as in F.
InitRun(K, E, P, N, B, F) ==
    /\ load_method \in K
    /\ num_epochs \in E
    /\ patience \in P
    /\ batch_size_valid \in B
    /\ batch_size_test \in B
    /\ train_batches = NumTrainBatches
    /\ valid_y \in UNION {[1..n -> Labels] : n \in N}
    /\ test_y \in UNION {[1..n -> Labels] : n \in N}
    /\ fs \in F
    /\ pc = "select" /\ bound = FALSE /\ epoch = -1 /\ batch = 0 /\ model = 0
    /\ train_loss = 0 /\ valid_loss = Div(0, 1)
    /\ valid_outputs = <<>> /\ valid_labels = <<>>
    /\ metrics = EmptyMetrics /\ es = NewEarlyStopping
    /\ made = {} /\ csv = <<>> /\ predictions = <<>> /\ actuals = <<>>
    /\ tested_model = <<>> /\ result = <<>>
    /\ epochs_run = 0 /\ es_calls = 0 /\ test_runs = 0

\* lines 103-118: the dataset selector
SelectDataset ==
    /\ pc = "select"
    /\ bound' = Assigns(load_method)
    /\ pc' = "loaders"
    /\ UNCHANGED <<argVars, made, epoch, batch, model, train_loss, valid_loss,
                   valid_outputs, valid_labels, metrics, es, fs, csv,
                   predictions, actuals, tested_model, result, epochs_run,
                   es_calls, test_runs>>
    /\ UNCHANGED <<sliceVars, mainVars>>

\* line 121 with train unbound: UnboundLocalError, a NameError; run() is left
RaiseNameError ==
    /\ pc = "loaders"
    /\ ~bound
    /\ pc' = "NameError"
    /\ UNCHANGED <<argVars, made, bound, epoch, batch, model, train_loss,
                   valid_loss, valid_outputs, valid_labels, metrics, es, fs,
                   csv, predictions, actuals, tested_model, result,
                   epochs_run, es_calls, test_runs>>
    /\ UNCHANGED <<sliceVars, mainVars>>

\* lines 121-160: loaders, checkpoint directory, EarlyStopping, model,
\* optimizer, empty metrics
Setup ==
    /\ pc = "loaders"
    /\ bound
    /\ made' = made \cup ({"model_save_path"} \ fs)
    /\ fs' = fs \cup {"model_save_path"}
    /\ es' = NewEarlyStopping
    /\ model' = 0
    /\ metrics' = EmptyMetrics
    /\ pc' = "for"
    /\ UNCHANGED <<argVars, bound, epoch, batch, train_loss, valid_loss,
                   valid_outputs, valid_labels, csv, predictions, actuals,
                   tested_model, result, epochs_run, es_calls, test_runs>>
    /\ UNCHANGED <<sliceVars, mainVars>>

\* lines 163-167: range(num_epochs) yields the next epoch
EnterEpoch ==
    /\ pc = "for"
    /\ epoch + 1 < num_epochs
    /\ epoch' = epoch + 1
    /\ train_loss' = 0
    /\ batch' = 0
    /\ epochs_run' = epochs_run + 1
    /\ pc' = "train"
    /\ UNCHANGED <<argVars, made, bound, model, valid_loss, valid_outputs,
                   valid_labels, metrics, es, fs, csv, predictions, actuals,
                   tested_model, result, es_calls, test_runs>>
    /\ UNCHANGED <<sliceVars, mainVars>>

\* line 163: range(num_epochs) is exhausted
ExitLoop ==
    /\ pc = "for"
    /\ ~(epoch + 1 < num_epochs)
    /\ pc' = "write_csv"
    /\ UNCHANGED <<argVars, made, bound, epoch, batch, model, train_loss,
                   valid_loss, valid_outputs, valid_labels, metrics, es, fs,
                   csv, predictions, actuals, tested_model, result,
                   epochs_run, es_calls, test_runs>>
    /\ UNCHANGED <<sliceVars, mainVars>>

\* lines 168-189: one training minibatch
TrainBatch ==
    /\ pc = "train"
    /\ ~TrainLoopDone
    /\ \E t_loss \in TrainLosses : train_loss' = train_loss + t_loss
    /\ model' = model + 1
    /\ batch' = batch + 1
    /\ UNCHANGED <<argVars, made, pc, bound, epoch, valid_loss, valid_outputs,
                   valid_labels, metrics, es, fs, csv, predictions, actuals,
                   tested_model, result, epochs_run, es_calls, test_runs>>
    /\ UNCHANGED <<sliceVars, mainVars>>

\* lines 192-196: the training loop is over, the validation pass begins
StartValidation ==
    /\ pc = "train"
    /\ TrainLoopDone
    /\ valid_loss' = Div(0, 1)
    /\ valid_outputs' = <<>>
    /\ valid_labels' = <<>>
    /\ batch' = 0
    /\ pc' = "validate"
    /\ UNCHANGED <<argVars, made, bound, epoch, model, train_loss, metrics,
                   es, fs, csv, predictions, actuals, tested_model, result,
                   epochs_run, es_calls, test_runs>>
    /\ UNCHANGED <<sliceVars, mainVars>>

\* lines 199-211: one validation minibatch
ValidBatch ==
    /\ pc = "validate"
    /\ batch < ValidBatches
    /\ LET y == BatchOf(valid_y, batch, batch_size_valid)
       IN  \E v_loss \in 0..MaxLoss, binary_outputs \in BinaryOutputs(Len(y)) :
              /\ valid_loss' = Div(valid_loss.num + v_loss, 1)
              /\ valid_outputs' = Extend(valid_outputs, binary_outputs)
              /\ valid_labels' = Extend(valid_labels, y)
    /\ batch' = batch + 1
    /\ UNCHANGED <<argVars, made, pc, bound, epoch, model, train_loss,
                   metrics, es, fs, csv, predictions, actuals, tested_model,
                   result, epochs_run, es_calls, test_runs>>
    /\ UNCHANGED <<sliceVars, mainVars>>

\* lines 213-238: the epoch's validation metrics, appended to the table
RecordMetrics ==
    /\ pc = "validate"
    /\ batch = ValidBatches
    /\ valid_loss' = Div(valid_loss.num, ValidBatches)
    /\ metrics' = AppendRow(metrics,
                            EpochRow(epoch, train_loss, train_batches,
                                     valid_loss', valid_labels, valid_outputs))
    /\ pc' = "early_stopping"
    /\ UNCHANGED <<argVars, made, bound, epoch, batch, model, train_loss,
                   valid_outputs, valid_labels, es, fs, csv, predictions,
                   actuals, tested_model, result, epochs_run, es_calls,
                   test_runs>>
    /\ UNCHANGED <<sliceVars, mainVars>>

\* line 240: early_stopping(epoch, valid_loss, model)
CallEarlyStopping ==
    /\ pc = "early_stopping"
    /\ es' = EarlyStoppingCall(es, epoch, valid_loss, model, patience)
    /\ es_calls' = es_calls + 1
    /\ pc' = "check_stop"
    /\ UNCHANGED <<argVars, made, bound, epoch, batch, model, train_loss,
                   valid_loss, valid_outputs, valid_labels, metrics, fs, csv,
                   predictions, actuals, tested_model, result, epochs_run,
                   test_runs>>
    /\ UNCHANGED <<sliceVars, mainVars>>

\* lines 241-243: break
Break ==
    /\ pc = "check_stop"
    /\ ~LoopContinues
    /\ pc' = "write_csv"
    /\ UNCHANGED <<argVars, made, bound, epoch, batch, model, train_loss,
                   valid_loss, valid_outputs, valid_labels, metrics, es, fs,
                   csv, predictions, actuals, tested_model, result,
                   epochs_run, es_calls, test_runs>>
    /\ UNCHANGED <<sliceVars, mainVars>>

\* lines 241, 163: no break, back to the loop head
NextEpoch ==
    /\ pc = "check_stop"
    /\ LoopContinues
    /\ pc' = "for"
    /\ UNCHANGED <<argVars, made, bound, epoch, batch, model, train_loss,
                   valid_loss, valid_outputs, valid_labels, metrics, es, fs,
                   csv, predictions, actuals, tested_model, result,
                   epochs_run, es_calls, test_runs>>
    /\ UNCHANGED <<sliceVars, mainVars>>

\* lines 246-254: the metrics table is written
WriteMetrics ==
    /\ pc = "write_csv"
    /\ made' = made \cup ({"FallAllD_test_train_records"} \ fs)
    /\ fs' = fs \cup {"FallAllD_test_train_records"}
    /\ csv' = ToCsv(metrics)
    /\ pc' = "test_init"
    /\ UNCHANGED <<argVars, bound, epoch, batch, model, train_loss,
                   valid_loss, valid_outputs, valid_labels, metrics, es,
                   predictions, actuals, tested_model, result, epochs_run,
                   es_calls, test_runs>>
    /\ UNCHANGED <<sliceVars, mainVars>>

\* lines 257-260: the test evaluation begins, on the model in memory
StartTest ==
    /\ pc = "test_init"
    /\ predictions' = <<>>
    /\ actuals' = <<>>
    /\ batch' = 0
    /\ tested_model' = <<model>>
    /\ test_runs' = test_runs + 1
    /\ pc' = "test"
    /\ UNCHANGED <<argVars, made, bound, epoch, model, train_loss, valid_loss,
                   valid_outputs, valid_labels, metrics, es, fs, csv, result,
                   epochs_run, es_calls>>
    /\ UNCHANGED <<sliceVars, mainVars>>

\* lines 263-281: one test minibatch (test_loss is accumulated and never read)
TestBatch ==
    /\ pc = "test"
    /\ batch < TestBatches
    /\ LET y == BatchOf(test_y, batch, batch_size_test)
       IN  \E binary_outputs \in BinaryOutputs(Len(y)) :
              /\ predictions' = Extend(predictions, binary_outputs)
              /\ actuals' = Extend(actuals, y)
    /\ batch' = batch + 1
    /\ UNCHANGED <<argVars, made, pc, bound, epoch, model, train_loss,
                   valid_loss, valid_outputs, valid_labels, metrics, es, fs,
                   csv, tested_model, result, epochs_run, es_calls,
                   test_runs>>
    /\ UNCHANGED <<sliceVars, mainVars>>

\* lines 283-292: the test metrics, returned
ReturnTestMetrics ==
    /\ pc = "test"
    /\ batch = TestBatches
    /\ result' = <<TestResult(actuals, predictions)>>
    /\ pc' = "returned"
    /\ UNCHANGED <<argVars, made, bound, epoch, batch, model, train_loss,
                   valid_loss, valid_outputs, valid_labels, metrics, es, fs,
                   csv, predictions, actuals, tested_model, epochs_run,
                   es_calls, test_runs>>
    /\ UNCHANGED <<sliceVars, mainVars>>

RunNext ==
    \/ SelectDataset \/ RaiseNameError \/ Setup
    \/ EnterEpoch \/ ExitLoop \/ TrainBatch \/ StartValidation
    \/ ValidBatch \/ RecordMetrics \/ CallEarlyStopping
    \/ Break \/ NextEpoch
    \/ WriteMetrics \/ StartTest \/ TestBatch \/ ReturnTestMetrics

SliceIdle == arr = <<>> /\ slice_method = "" /\ sliced = <<>>
MainIdle ==
    /\ load_methods = <<>> /\ main_i = 1 /\ main_pc = "idle" /\ input_size = 0
    /\ test_metrics = <<>> /\ returns = <<>>

\* Runs over splits of one sample, through up to MaxEpochs epochs.
FlowInit ==
    InitRun(RunInputs, 0..MaxEpochs, 1..MaxPatience, {1}, {1},
            {{}, {"model_save_path", "FallAllD_test_train_records"}})
\* Runs of one epoch over splits of up to MaxSamples samples, in minibatches
\* of one or two samples.
EvalInit ==
    InitRun({"waist_neck"}, {1}, {1}, 1..MaxSamples, 1..2, {{}})

Init ==
    /\ FlowInit \/ EvalInit
    /\ SliceIdle /\ MainIdle
Spec == Init /\ [][RunNext]_vars
\* The runs whose termination is checked: those of FlowInit from an empty
\* working directory, and one-epoch runs over splits of MaxSamples samples in
\* minibatches of one.
LiveInit ==
    /\ \/ InitRun(RunInputs, 0..MaxEpochs, 1..MaxPatience, {1}, {1}, {{}})
       \/ InitRun({"waist_neck"}, {1}, {1}, {MaxSamples}, {1}, {{}})
    /\ SliceIdle /\ MainIdle
\* run() is sequential code: a step that can be taken is taken.
FairSpec == LiveInit /\ [][RunNext]_vars /\ WF_vars(RunNext)

----------------------------------------------------------------------------
\* Properties of ClassificationModel2.run

LoopOver == es.early_stop \/ ~(epoch + 1 < num_epochs)
Rows == Len(metrics["epoch"])
Positives(y) == Cardinality({k \in 1..Len(y) : y[k] = 1})

\* C1: every executed epoch goes train -> validate -> early-stop check: the
\* validation pass starts only after all training minibatches of the epoch,
\* early_stopping is called once per executed epoch and only after that epoch's
\* validation, the next epoch starts only if the stop flag is not set and
\* epoch + 1 < num_epochs, and otherwise the loop terminates.
C1_EpochOrder ==
    [][/\ (pc' = "validate" /\ pc # "validate")
            => /\ pc = "train"
               /\ batch = train_batches
               /\ model = epochs_run * train_batches
       /\ (pc' = "early_stopping" /\ pc # "early_stopping")
            => /\ pc = "validate"
               /\ batch = ValidBatches
               /\ es_calls = epochs_run - 1
       /\ es_calls' # es_calls
            => /\ pc = "early_stopping"
               /\ es_calls' = es_calls + 1
               /\ es_calls' = epochs_run
               /\ Rows = epochs_run
       /\ epochs_run' # epochs_run
            => /\ epochs_run' = epochs_run + 1
               /\ es_calls = epochs_run
               /\ ~es.early_stop
               /\ epoch' < num_epochs
               /\ pc' = "train"
       /\ (pc = "check_stop" /\ es.early_stop) => pc' = "write_csv"
       /\ (pc = "for" /\ ~(epoch + 1 < num_epochs)) => pc' = "write_csv"
      ]_vars

\* the validation pass of a second epoch, after the first epoch's check
C1_Witness == pc = "validate" /\ epochs_run = 2 /\ es_calls = 1 /\ batch = 0

\* C2: training halts within patience + 1 epochs of the last improving epoch:
\* patience non-improving validation losses in a row raise the stop flag, and
\* no training epoch is executed once the flag is raised.
C2_EarlyStopHalts ==
    /\ es.counter >= patience => es.early_stop
    /\ es.early_stop => es.counter = patience
    /\ es.early_stop
         => pc \in {"check_stop", "write_csv", "test_init", "test", "returned"}
    /\ epochs_run - es.best_epoch <= patience
    /\ es.early_stop => epochs_run = es.best_epoch + patience

\* a run stopped early, with epochs to spare
C2_Witness ==
    /\ pc = "returned" /\ es.early_stop /\ epochs_run < num_epochs
    /\ patience = 1 /\ es.best_epoch = 1 /\ epochs_run = 2

\* C3: the metrics CSV has one row per executed epoch, the early-stopping epoch
\* included: the eleven columns all have length k, the epoch column is 1..k,
\* k <= num_epochs, and the table written is this one, with k the number of
\* epochs run.
C3_MetricsRows ==
    /\ \A c \in Columns : Len(metrics[c]) = Rows
    /\ metrics["epoch"] = [i \in 1..Rows |-> i]
    /\ Rows <= num_epochs
    /\ pc \in {"write_csv", "test_init", "test", "returned"}
         => Rows = epochs_run /\ Rows = Min(epochs_run, num_epochs)
    /\ pc \in {"test_init", "test", "returned"}
         => csv = <<metrics>> /\ Len(csv[1]["valid_TN"]) = epochs_run

\* a table written after an early stop in its second row
C3_Witness ==
    /\ csv # <<>> /\ es.early_stop
    /\ Len(csv[1]["epoch"]) = 2 /\ num_epochs = 3

C6_RatesInUnitInterval ==
    /\ \A i \in 1..Rows :
          /\ InUnitInterval(metrics["valid_TPR"][i])
          /\ InUnitInterval(metrics["valid_FPR"][i])
    /\ result # <<>>
         => InUnitInterval(result[1].TPR) /\ InUnitInterval(result[1].FPR)

\* C7: an unrecognized keyword binds no split and raises nothing in the
\* selector; the run fails with a NameError at the first use of the unbound
\* split, before any epoch, before a directory is created and before any
\* metrics file is written.
C7_UnrecognizedKeyword ==
    /\ [](load_method \notin Keywords /\ pc # "idle"
            => /\ pc \in {"select", "loaders", "NameError"}
               /\ ~bound
               /\ epochs_run = 0 /\ model = 0 /\ es_calls = 0 /\ test_runs = 0
               /\ made = {} /\ csv = <<>> /\ result = <<>>)
    /\ [][/\ pc = "select" => pc' = "loaders"
          /\ (pc = "loaders" /\ load_method \notin Keywords) => pc' = "NameError"
         ]_vars

\* the NameError of a keyword that differs from a recognized one in case
C7_Witness == pc = "NameError" /\ load_method = "Waist" /\ fs = {}

\* C9: the parameters the test evaluation runs with are those of the
\* checkpoint early stopping persisted, the epoch of lowest validation loss.
C9_TestsBestCheckpoint ==
    (tested_model # <<>> /\ es.checkpoint # <<>>) => tested_model = es.checkpoint

----------------------------------------------------------------------------
\* Channel slicing: the preprocess functions of the load_dataset_with_* loaders.
\* An array of shape [samples, window_length, channels] is a sequence of
\* samples, each a sequence of time steps, each a sequence of channel values.

\* v[lo:hi] and v[lo:] on a sequence, with Python's indices (from 0, hi excluded)
Slice(v, lo, hi) == SubSeq(v, lo + 1, Min(hi, Len(v)))
SliceFrom(v, lo) == SubSeq(v, lo + 1, Len(v))
\* a[:, :, lo:hi], a[:, :, lo:] and a[:, :, j]
Channels(a, lo, hi) ==
    [s \in 1..Len(a) |-> [w \in 1..Len(a[s]) |-> Slice(a[s][w], lo, hi)]]
ChannelsFrom(a, lo) ==
    [s \in 1..Len(a) |-> [w \in 1..Len(a[s]) |-> SliceFrom(a[s][w], lo)]]
Channel(a, j) == [s \in 1..Len(a) |-> [w \in 1..Len(a[s]) |-> a[s][w][j + 1]]]
\* np.concatenate((a, b), axis=2)
Concatenate(a, b) ==
    [s \in 1..Len(a) |-> [w \in 1..Len(a[s]) |-> a[s][w] \o b[s][w]]]
\* np.expand_dims(m, axis=-1)
ExpandDims(m) == [s \in 1..Len(m) |-> [w \in 1..Len(m[s]) |-> <<m[s][w]>>]]

\* utils.feature_engineering: the angles are computed element by element, so
\* each result has the shape [samples, window_length] of the arguments; an
\* angle is kept as a negative number, apart from every raw value.
Angle(kind, x) == [s \in 1..Len(x) |-> [w \in 1..Len(x[s]) |-> 0 - kind]]
calculate_roll_pitch(x, y, z) == <<Angle(1, x), Angle(2, x)>>
calculate_yaw(mx, my, mz, roll, pitch) == Angle(3, mx)

load_dataset_with_neck(a) == Channels(a, 1, 10)
load_dataset_with_wrist(a) == Channels(a, 10, 19)
\* variant: the waist block taken from index 18
load_dataset_with_waist_offByOne(a) == ChannelsFrom(a, 18)
load_dataset_with_waist(a) == ChannelsFrom(a, 19)
load_dataset_with_waist_wrist(a) == ChannelsFrom(a, 10)
load_dataset_with_neck_waist(a) ==
    LET neck == Channels(a, 1, 10)
        waist == ChannelsFrom(a, 19)
    IN  Concatenate(neck, waist)
load_dataset_with_waist_acc(a) ==
    LET waist == ChannelsFrom(a, 19)
    IN  Channels(waist, 0, 3)
load_dataset_with_waist_eul_acc(a) ==
    LET waist == ChannelsFrom(a, 19)
        acc == Channels(waist, 0, 3)
        mag == ChannelsFrom(waist, 6)
        zx == calculate_roll_pitch(Channel(acc, 0), Channel(acc, 1), Channel(acc, 2))
        euler_z == zx[1]
        euler_x == zx[2]
        euler_y == calculate_yaw(Channel(mag, 0), Channel(mag, 1), Channel(mag, 2),
                                 euler_z, euler_x)
        euler == Concatenate(Concatenate(ExpandDims(euler_x), ExpandDims(euler_y)),
                             ExpandDims(euler_z))
    IN  Concatenate(acc, euler)
load_dataset_with_neck_waist_wrist(a) == ChannelsFrom(a, 1)

\* the loader run() calls for a recognized keyword
Preprocess(k, a) ==
    CASE k = "wrist" -> load_dataset_with_wrist(a)
      [] k = "waist" -> load_dataset_with_waist(a)
      [] k = "waist_wrist" -> load_dataset_with_waist_wrist(a)
      [] k = "neck" -> load_dataset_with_neck(a)
      [] k = "waist_neck" -> load_dataset_with_neck_waist(a)
      [] k = "neck_waist_wrist" -> load_dataset_with_neck_waist_wrist(a)
      [] k = "waist_eul_acc" -> load_dataset_with_waist_eul_acc(a)
      [] k = "waist_acc" -> load_dataset_with_waist_acc(a)

\* A raw array: the value at [s, w, c] names its own place.
RawValue(s, w, c) == (s * 100 + w) * 100 + c
RawArray(S, W) ==
    [s \in 1..S |-> [w \in 1..W |-> [c \in 1..RawChannels |-> RawValue(s, w, c - 1)]]]

SliceInit ==
    /\ \E S \in 1..MaxArrSamples, W \in 1..MaxWindow : arr = RawArray(S, W)
    /\ slice_method = ""
    /\ sliced = <<>>
    /\ RunIdle(<<>>) /\ MainIdle

\* load_dataset applies the keyword's preprocess function to a raw array
ApplyPreprocess ==
    /\ \E k \in Keywords :
          /\ slice_method' = k
          /\ sliced' = Preprocess(k, arr)
    /\ UNCHANGED <<arr, runVars, mainVars>>

SliceSpec == SliceInit /\ [][ApplyPreprocess]_vars

\* The documented channels of each placement, as indices into the raw window.
Range(a, b) == [i \in 1..(b - a + 1) |-> a + i - 1]
DocumentedCount(k) ==
    CASE k \in {"neck", "wrist", "waist"} -> 9
      [] k \in {"waist_wrist", "waist_neck"} -> 18
      [] k = "neck_waist_wrist" -> 27
      [] k = "waist_acc" -> 3
      [] k = "waist_eul_acc" -> 6
DocumentedChannels(k) ==
    CASE k = "neck" -> Range(1, 9)
      [] k = "wrist" -> Range(10, 18)
      [] k = "waist" -> Range(19, 27)
      [] k = "waist_wrist" -> Range(10, 27)
      [] k = "waist_neck" -> Range(1, 9) \o Range(19, 27)
      [] k = "neck_waist_wrist" -> Range(1, 27)
      [] k = "waist_acc" -> Range(19, 21)
      [] k = "waist_eul_acc" -> Range(19, 21)

\* C8: on a raw array of shape [samples, window_length, 28] every slicing
\* function keeps the sample count and the window length and returns the
\* documented channel count; the channels selected are the placement's index
\* ranges in their original order (for waist_eul_acc, the three acceleration
\* channels, which the three angles follow).
C8_SlicedShape ==
    sliced # <<>> =>
        /\ Len(sliced) = Len(arr)
        /\ \A s \in 1..Len(arr) :
              /\ Len(sliced[s]) = Len(arr[s])
              /\ \A w \in 1..Len(arr[s]) :
                    Len(arr[s][w]) = 28 =>
                        /\ Len(sliced[s][w]) = DocumentedCount(slice_method)
                        /\ LET idx == DocumentedChannels(slice_method)
                           IN  \A i \in 1..Len(idx) :
                                  sliced[s][w][i] = RawValue(s, w, idx[i])

\* the neck and waist blocks side by side, on several samples and time steps
C8_Witness ==
    /\ slice_method = "waist_neck" /\ Len(arr) = 2 /\ Len(arr[1]) = 3
    /\ sliced[2][3][9] = RawValue(2, 3, 9) /\ sliced[2][3][10] = RawValue(2, 3, 19)

----------------------------------------------------------------------------
\* The entry point's aggregation loop.

TestColumns == {"load_method", "window_size", "test_accuracy", "test_F1",
                "test_TPR", "test_FPR", "FP", "FN", "TP", "TN"}
EmptyTestMetrics == [c \in TestColumns |-> <<>>]

\* lines 362-373: the chain that sets the local input_size
InputSizeFor(load, previous) ==
    CASE load \in {"waist", "wrist", "neck"} -> 9
      [] load \in {"waist_wrist", "waist_neck"} -> 18
      [] load = "neck_waist_wrist" -> 27
      [] OTHER -> previous

\* lines 393-402: the ten appends
AppendTestRow(tm, load, r) ==
    [load_method |-> Append(tm["load_method"], load),
     window_size |-> Append(tm["window_size"], r.window_size),
     test_accuracy |-> Append(tm["test_accuracy"], r.accuracy),
     test_F1 |-> Append(tm["test_F1"], r.F1),
     test_TPR |-> Append(tm["test_TPR"], r.TPR),
     test_FPR |-> Append(tm["test_FPR"], r.FPR),
     FP |-> Append(tm["FP"], r.FP),
     FN |-> Append(tm["FN"], r.FN),
     TP |-> Append(tm["TP"], r.FP),
     TN |-> Append(tm["TN"], r.FP)]

MainInit ==
    /\ load_methods \in UNION {[1..n -> RunInputs] : n \in 1..MaxConfigs}
    /\ main_i = 1
    /\ main_pc = "loop"
    /\ input_size = 0
    /\ test_metrics = EmptyTestMetrics
    /\ returns = <<>>
    /\ \E ty \in UNION {[1..n -> Labels] : n \in 1..MaxSamples} : RunIdle(ty)
    /\ SliceIdle

\* lines 360-403: one configuration: run() returns the metrics of its test
\* evaluation, and the row is appended
MainIterate ==
    /\ main_pc = "loop"
    /\ main_i <= Len(load_methods)
    /\ Assigns(load_methods[main_i])
    /\ input_size' = InputSizeFor(load_methods[main_i], input_size)
    /\ \E y_pred \in BinaryOutputs(Len(test_y)) :
          LET r == TestResult(test_y, y_pred)
          IN  /\ test_metrics' = AppendTestRow(test_metrics, load_methods[main_i], r)
              /\ returns' = Append(returns, r)
    /\ main_i' = main_i + 1
    /\ UNCHANGED <<load_methods, main_pc, runVars, sliceVars>>

\* lines 360-392: run() raises for a keyword it binds no split for
MainRunRaises ==
    /\ main_pc = "loop"
    /\ main_i <= Len(load_methods)
    /\ ~Assigns(load_methods[main_i])
    /\ input_size' = InputSizeFor(load_methods[main_i], input_size)
    /\ main_pc' = "NameError"
    /\ UNCHANGED <<load_methods, main_i, test_metrics, returns, runVars, sliceVars>>

\* line 404: the loop is over
MainFinish ==
    /\ main_pc = "loop"
    /\ main_i > Len(load_methods)
    /\ main_pc' = "done"
    /\ UNCHANGED <<load_methods, main_i, input_size, test_metrics, returns,
                   runVars, sliceVars>>

MainNext == MainIterate \/ MainRunRaises \/ MainFinish
MainSpec == MainInit /\ [][MainNext]_vars

\* C10: every configuration appends one row to the aggregate table, the ten
\* columns keep equal length, and each column holds the value of the same name
\* that the configuration's run() returned; the TP and TN columns hold the
\* returned TP and TN.
C10_AggregateRows ==
    /\ \A c \in TestColumns : Len(test_metrics[c]) = Len(returns)
    /\ Len(returns) = main_i - 1
    /\ main_pc = "done" => Len(returns) = Len(load_methods)
    /\ \A i \in 1..Len(returns) :
          /\ test_metrics["load_method"][i] = load_methods[i]
          /\ test_metrics["window_size"][i] = returns[i].window_size
          /\ test_metrics["test_accuracy"][i] = returns[i].accuracy
          /\ test_metrics["test_F1"][i] = returns[i].F1
          /\ test_metrics["test_TPR"][i] = returns[i].TPR
          /\ test_metrics["test_FPR"][i] = returns[i].FPR
          /\ test_metrics["FP"][i] = returns[i].FP
          /\ test_metrics["FN"][i] = returns[i].FN
          /\ test_metrics["TP"][i] = returns[i].TP
          /\ test_metrics["TN"][i] = returns[i].TN

====
